---- MODULE Spec2Model ----
(***************************************************************************)
(* Model of wiffecg: the zip-backed processing manager ZipMan and the      *)
(* staged driver WIFFECG.ProcessRRToZip (src/wiffecg/__init__.py).         *)
(*                                                                         *)
(* Python values are tagged records: None, enum members, opaque objects,   *)
(* the error dictionary and traceback objects.  The state dictionary of a  *)
(* ZipMan is a function from its keys to such values.  The archive is the  *)
(* zip file at the one path every ZipMan of the model is constructed for:  *)
(* whether it exists, how many 'state.pypickle' entries it holds and the   *)
(* bytes of the entry zipfile resolves that name to (the last written).    *)
(* A write through an open handle is taken as persisted when it returns.   *)
(***************************************************************************)
EXTENDS Integers, Sequences, FiniteSets, TLC

\* ------------------------------------------------------------------ bounds
MaxSteps == 3      \* calls a client makes on the two ZipMan objects
MaxCalls == 9      \* driver invocations counted in one uninterrupted run
MaxEntries == 3    \* 'state.pypickle' entries written to the archive
MaxNum == 5        \* numerators of the seconds values of an interval

\* ------------------------------------------------------------ Python values
None == [t |-> "None"]
Enum(name) == [t |-> "enum", name |-> name]
Obj(v) == [t |-> "obj", v |-> v]
Str(v) == [t |-> "str", v |-> v]
TracebackObject == [t |-> "traceback"]

\* class ProcessingStateEnum(enum.IntEnum)
ProcessingStateEnum ==
  [ EMPTY |-> 0, INITIALIZED |-> 1, CORRELATE |-> 2, KEEPKEYS |-> 3,
    REMOVEKEYS |-> 4, USERFILTER |-> 5, CALCULATERR |-> 6, SAVEPNG |-> 7,
    SAVEPDF |-> 8, COMPLETED |-> 100, ERROR |-> 1000 ]

StageNames == DOMAIN ProcessingStateEnum

\* variant: the constructor starts at the wrong member
InitState_initialized == [state |-> Enum("INITIALIZED"), error |-> None]

\* ZipMan.__init__: the state dictionary of a new manager
InitState == [state |-> Enum("EMPTY"), error |-> None]

\* ZipMan.__init__: no handle, the initial dictionary
ZipMan_init == [zip |-> FALSE, state |-> InitState]

\* d[k] = v on a Python dictionary
DictSet(d, k, v) == [x \in (DOMAIN d) \cup {k} |-> IF x = k THEN v ELSE d[x]]

\* ------------------------------------------------------------------ pickle
\* pickle refuses traceback objects, also inside the error dictionary
Picklable(v) ==
  CASE v.t = "traceback" -> FALSE
    [] v.t = "dict" -> v.traceback.t # "traceback" /\ v.data.t # "traceback"
    [] OTHER -> TRUE

\* an enum member is pickled as (class, integer value); the rest as itself
Reduce(v) ==
  IF v.t = "enum"
  THEN [t |-> "reduce", cls |-> "ProcessingStateEnum", value |-> ProcessingStateEnum[v.name]]
  ELSE v

\* variant: the member comes back as its bare integer
Rebuild_as_int(p) ==
  IF p.t = "reduce" THEN [t |-> "int", v |-> p.value] ELSE p

\* unpickling looks the member up by its value
Rebuild(p) ==
  IF p.t = "reduce"
  THEN Enum(CHOOSE s \in StageNames : ProcessingStateEnum[s] = p.value)
  ELSE p

\* the entry left by a dump that raised: zero bytes
Truncated == [ok |-> FALSE]

\* variant: only the stage is written
pickle_dump_stage_only(d) ==
  IF \A k \in DOMAIN d : Picklable(d[k])
  THEN [exc |-> "none", blob |-> [ok |-> TRUE, items |-> [k \in {"state"} |-> Reduce(d[k])]]]
  ELSE [exc |-> "TypeError", blob |-> Truncated]

\* pickle.dump(self.State, f) inside 'with self.Zip.open(name, "w") as f'
pickle_dump(d) ==
  IF \A k \in DOMAIN d : Picklable(d[k])
  THEN [exc |-> "none", blob |-> [ok |-> TRUE, items |-> [k \in DOMAIN d |-> Reduce(d[k])]]]
  ELSE [exc |-> "TypeError", blob |-> Truncated]

\* pickle.load(f)
pickle_load(b) ==
  IF b.ok
  THEN [exc |-> "none", state |-> [k \in DOMAIN b.items |-> Rebuild(b.items[k])]]
  ELSE [exc |-> "EOFError", state |-> InitState]

\* ----------------------------------------------------------------- archive
NoArchive == [exists |-> FALSE, n |-> 0, blob |-> Truncated]

\* the persisted state record: the bytes 'state.pypickle' resolves to
NoRecord == [ok |-> FALSE, absent |-> TRUE]
Persisted(a) == IF a.n = 0 THEN NoRecord ELSE a.blob

\* self.Zip.open('state.pypickle', 'w') + pickle.dump: one more entry
WriteEntry(a, d) ==
  [exists |-> TRUE, n |-> a.n + 1, blob |-> pickle_dump(d).blob]

\* ------------------------------------------------------- ZipMan operations
\* Each takes the manager zm = [zip, state] and the archive a and gives the
\* exception raised ("none" if it returned), the manager and the archive.
AlreadyOpen == "Exception: File is already open"
NotOpen == "Exception: File is not open, cannot close it"

Result(e, zm, a) == [exc |-> e, zm |-> zm, arch |-> a]

\* variant: no test for a handle already held
open_no_check(zm, a) ==
  LET a1 == [a EXCEPT !.exists = TRUE]
      h == [zm EXCEPT !.zip = TRUE]
  IN IF a1.n = 0
     THEN Result(pickle_dump(zm.state).exc, h, WriteEntry(a1, zm.state))
     ELSE LET r == pickle_load(a1.blob)
          IN IF r.exc = "none"
             THEN Result("none", [h EXCEPT !.state = r.state], a1)
             ELSE Result(r.exc, h, a1)

\* variant: an unreadable record is replaced by a new one
open_reinit_on_error(zm, a) ==
  IF zm.zip
  THEN Result(AlreadyOpen, zm, a)
  ELSE LET a1 == [a EXCEPT !.exists = TRUE]
           h == [zm EXCEPT !.zip = TRUE]
       IN IF a1.n = 0
          THEN Result(pickle_dump(zm.state).exc, h, WriteEntry(a1, zm.state))
          ELSE LET r == pickle_load(a1.blob)
               IN IF r.exc = "none"
                  THEN Result("none", [h EXCEPT !.state = r.state], a1)
                  ELSE Result("none", [h EXCEPT !.state = r.state], WriteEntry(a1, r.state))

\* ZipMan.open
open(zm, a) ==
  IF zm.zip
  THEN Result(AlreadyOpen, zm, a)
  ELSE LET a1 == [a EXCEPT !.exists = TRUE]          \* ZipFile(Filename, 'a')
           h == [zm EXCEPT !.zip = TRUE]
       IN IF a1.n = 0                                \* name not in namelist()
          THEN Result(pickle_dump(zm.state).exc, h, WriteEntry(a1, zm.state))
          ELSE LET r == pickle_load(a1.blob)
               IN IF r.exc = "none"
                  THEN Result("none", [h EXCEPT !.state = r.state], a1)
                  ELSE Result(r.exc, h, a1)

\* variant: the handle is closed but not forgotten
close_keeps_handle(zm, a) ==
  IF ~zm.zip THEN Result(NotOpen, zm, a) ELSE Result("none", zm, a)

\* ZipMan.close
close(zm, a) ==
  IF ~zm.zip
  THEN Result(NotOpen, zm, a)
  ELSE Result("none", [zm EXCEPT !.zip = FALSE], a)

\* ZipMan.SaveState; without a handle self.Zip is None and None.open raises
SaveState(zm, a) ==
  IF ~zm.zip
  THEN Result("AttributeError", zm, a)
  ELSE Result(pickle_dump(zm.state).exc, zm, WriteEntry(a, zm.state))

\* ZipMan.SetStatEmpty .. ZipMan.SetStateError, one setter per member
SetState(zm, s) == [zm EXCEPT !.state = DictSet(zm.state, "state", Enum(s))]

\* ZipMan.SetError
SetError(zm, e, tb, msg, dat) ==
  LET z1 == SetState(zm, "ERROR")
  IN [z1 EXCEPT !.state = DictSet(z1.state, "error",
        [t |-> "dict", exception |-> e, traceback |-> tb, message |-> msg, data |-> dat])]

\* ZipMan.State[k] = v: the property hands out the dictionary itself
StateSetItem(zm, k, v) == [zm EXCEPT !.state = DictSet(zm.state, k, v)]

\* ZipMan.IsStateEmpty .. ZipMan.IsStateError
IsState(zm, s) == zm.state["state"] = Enum(s)

\* ZipMan.__enter__: opens, and having no return statement yields None
enter(zm, a) ==
  LET o == open(zm, a)
  IN [exc |-> o.exc, zm |-> o.zm, arch |-> o.arch, value |-> None]

\* variant: the record is saved once more on the way out
exit_saves(zm, a) ==
  IF zm.zip THEN close(zm, SaveState(zm, a).arch) ELSE Result("none", zm, a)

\* ZipMan.__exit__: closes if a handle is held; returns False
exit(zm, a) == IF zm.zip THEN close(zm, a) ELSE Result("none", zm, a)

\* ------------------------------------------------- WIFFECG.ProcessRRToZip
Has(d, keys) == keys \subseteq DOMAIN d

\* variant: the EMPTY branch forgets the channel list
InitFields_no_channels(d) ==
  LET d2 == DictSet(d, "Potentials", None)
      d3 == DictSet(d2, "Peaks", None)
      d4 == DictSet(d3, "Correlate", None)
      d5 == DictSet(d4, "Keep", None)
      d6 == DictSet(d5, "Remove", None)
  IN DictSet(d6, "UserFilter", None)

\* The fields written by the EMPTY branch besides the stage
InitFields(d) ==
  LET d1 == DictSet(d, "Channels", Obj("leads"))
      d2 == DictSet(d1, "Potentials", None)
      d3 == DictSet(d2, "Peaks", None)
      d4 == DictSet(d3, "Correlate", None)
      d5 == DictSet(d4, "Keep", None)
      d6 == DictSet(d5, "Remove", None)
  IN DictSet(d6, "UserFilter", None)

\* a branch of the cascade that reads `reads`, calls the engine, stores
\* `writes` and ends with the setter for `next` and SaveState
Branch(zm, a, reads, fail, writes, next) ==
  IF ~Has(zm.state, reads) THEN Result("KeyError", zm, a)
  ELSE IF fail THEN Result("EngineError", zm, a)
  ELSE LET Put[i \in 0..Len(writes)] ==
             IF i = 0 THEN zm.state ELSE DictSet(Put[i-1], writes[i], Obj(writes[i]))
       IN SaveState(SetState([zm EXCEPT !.state = Put[Len(writes)]], next), a)

\* the if/elif cascade of the with block, run on the manager zm
StageBody(zm, a, savepng, savepdf, fail) ==
  LET afterRR == IF savepng THEN "SAVEPNG" ELSE IF savepdf THEN "SAVEPDF" ELSE "COMPLETED"
      afterPNG == IF savepdf THEN "SAVEPDF" ELSE "COMPLETED"
  IN CASE IsState(zm, "EMPTY") ->
            IF fail THEN Result("EngineError", zm, a)
            ELSE SaveState(SetState([zm EXCEPT !.state = InitFields(zm.state)], "INITIALIZED"), a)
       [] IsState(zm, "INITIALIZED") ->
            Branch(zm, a, {}, fail, <<"Potentials", "Peaks">>, "CORRELATE")
       [] IsState(zm, "CORRELATE") ->
            \* GetCorrelate(chan, ...): the name chan is not defined
            IF ~Has(zm.state, {"Channels", "Potentials", "Peaks"}) THEN Result("KeyError", zm, a)
            ELSE IF fail THEN Result("EngineError", zm, a)
            ELSE Result("NameError", zm, a)
       [] IsState(zm, "KEEPKEYS") ->
            Branch(zm, a, {"Channels", "Peaks"}, fail, <<"Keep", "Points">>, "REMOVEKEYS")
       [] IsState(zm, "REMOVEKEYS") ->
            Branch(zm, a, {"Channels", "Correlate", "Points", "Keep"}, fail, <<"Remove">>, "USERFILTER")
       [] IsState(zm, "USERFILTER") ->
            Branch(zm, a, {"Channels", "Points", "Keep", "Remove", "UserFilter"}, fail, <<>>, "CALCULATERR")
       [] IsState(zm, "CALCULATERR") ->
            Branch(zm, a, {"Channels", "Correlate", "Keep", "Remove", "UserFilter"}, fail, <<>>, afterRR)
       [] IsState(zm, "SAVEPNG") -> SaveState(SetState(zm, afterPNG), a)
       [] IsState(zm, "SAVEPDF") -> SaveState(SetState(zm, "COMPLETED"), a)
       [] IsState(zm, "COMPLETED") -> Result("NotImplementedError", zm, a)
       [] OTHER -> Result("NotImplementedError", zm, a)

\* the keys each branch of the cascade assigns in z.State
Writes(s) ==
  CASE s = "EMPTY" -> {"Channels", "Potentials", "Peaks", "Correlate", "Keep", "Remove", "UserFilter"}
    [] s = "INITIALIZED" -> {"Potentials", "Peaks"}
    [] s = "CORRELATE" -> {"Correlate"}
    [] s = "KEEPKEYS" -> {"Keep", "Points"}
    [] s = "REMOVEKEYS" -> {"Remove"}
    [] OTHER -> {}

\* the with block on the value z bound by 'as': z.IsStateEmpty is its first
\* expression, and None has no such attribute
WithBody(z, zm, a, savepng, savepdf, fail) ==
  IF z.t = "None"
  THEN Result("AttributeError", zm, a)
  ELSE StageBody(zm, a, savepng, savepdf, fail)

CutPoints == {"none", "L448", "L199"}

\* One invocation: 'with ZipMan(fname) as z: ...; return z.IsStateCompleted'.
\* cut names where the process is killed, if it is: inside open after the
\* ZipFile is made (L448) or after __enter__ has returned (L199).
ProcessRRToZip(a, savepng, savepdf, fail, cut) ==
  LET e == enter(ZipMan_init, a)
      b == WithBody(e.value, e.zm, e.arch, savepng, savepdf, fail)
      x == exit(b.zm, b.arch)
      \* work: what the with block raised; exc: what the caller sees
      Out(work, exc, zm, arch, ret) ==
        [work |-> work, exc |-> exc, zm |-> zm, arch |-> arch, ret |-> ret]
  IN CASE cut = "L448" ->
            Out("none", "killed", [ZipMan_init EXCEPT !.zip = TRUE], [a EXCEPT !.exists = TRUE], None)
       [] cut = "L199" -> Out("none", "killed", e.zm, e.arch, None)
       [] OTHER ->
            IF e.exc # "none" THEN Out("none", e.exc, e.zm, e.arch, None)  \* __exit__ not run
            ELSE IF b.exc # "none" THEN Out(b.exc, b.exc, x.zm, x.arch, None) \* re-raised
            ELSE IF e.value.t = "None" THEN Out("none", "AttributeError", x.zm, x.arch, None)
            ELSE Out("none", "none", x.zm, x.arch, [t |-> "bool", v |-> IsState(x.zm, "COMPLETED")])

\* ------------------------------------------------------------ PDF export
MaxFreq == 2
MaxFrames == 9
Frequencies == 1..MaxFreq
Speeds == {100, 200, 250}

\* step = int((width * 25.4) / speed * freq) with width = 8.0
Step(freq, speed) == (2032 * freq) \div (10 * speed)

\* One pass of the for loop on the frame with index i: when (i + 1) % step
\* is 0 the buffer is drawn as a page and cleared, then the frame is
\* buffered. A frame is named by its index.
LoopBody(st, i, step) ==
  IF (i + 1) % step = 0
  THEN [times |-> <<i>>, pages |-> Append(st.pages, st.times)]
  ELSE [times |-> Append(st.times, i), pages |-> st.pages]

\* ExportToPDF on a recording of n frames with indices 0..n-1: the pages
\* drawn and the buffer left when the stream ends
ExportToPDF(freq, speed, n) ==
  LET step == Step(freq, speed)
      Loop[i \in 0..n] ==
        IF i = 0 THEN [times |-> <<>>, pages |-> <<>>]
        ELSE LoopBody(Loop[i-1], i - 1, step)
  IN IF n > 0 /\ step = 0
     THEN [exc |-> "ZeroDivisionError", pages |-> <<>>, times |-> <<>>]
     ELSE [exc |-> "none", pages |-> Loop[n].pages, times |-> Loop[n].times]

\* ------------------------------------------- interval to frame conversion
\* A seconds value is the rational num/den, the sampling rate an integer.
Denominators == {1, 2, 1000}
SamplingRates == {1, 500, 600, 1000}
Categories == {"user", "noise", "ignore"}
Seconds == [num : 0..MaxNum, den : Denominators]

\* variant: the fraction is cut off, as int() does
round_truncates(p, q) == p \div q

\* round(x) for x = p/q: the nearest integer, a tie going to the even one
round(p, q) ==
  LET f == p \div q
      r == p % q
  IN IF 2 * r < q THEN f
     ELSE IF 2 * r > q THEN f + 1
     ELSE IF f % 2 = 0 THEN f ELSE f + 1

\* (round(_[0]*samp), round(_[1]*samp)) for one (start, stop) pair
ToFrames(start, stop, samp) ==
  <<round(start.num * samp, start.den), round(stop.num * samp, stop.den)>>

\* ------------------------------------------------------------------- state
VARIABLES
  export,   \* the recording being exported to PDF and the pages drawn
  conv,     \* one (start, stop) pair of a category on its way to frames
  mgr,      \* the two ZipMan objects a client holds for the path: [zip, state]
  archive,  \* the zip file at that path
  last,     \* the call made last: its name, manager, exception and result
  run,      \* the driver invocations made so far, while nothing else was called
  steps     \* client calls made so far

vars == <<mgr, archive, last, run, steps, conv, export>>

Managers == {"a", "b"}

\* the client mutates the dictionary of its first manager; the second is
\* another ZipMan for the same path that it opens, saves and closes
Mutators == {"a"}

\* how an invocation of the driver goes: <<the engine fails, the kill point>>
Outcomes == {<<FALSE, "none">>, <<TRUE, "none">>, <<FALSE, "L448">>, <<FALSE, "L199">>}

\* inputs of the client calls
ClientKeys == {"Potentials", "Peaks"}
Tracebacks == {TracebackObject, Str("trace")}

\* no pair is being converted
NoConv == [cat |-> "-", samp |-> 1, start |-> [num |-> 0, den |-> 1],
           stop |-> [num |-> 0, den |-> 1], frames |-> <<0, 0>>, done |-> FALSE]

\* no recording is being exported
NoExport == [freq |-> 1, speed |-> 100, n |-> 0, pages |-> <<>>, times |-> <<>>,
             exc |-> "none", done |-> FALSE]

NoRun == [pure |-> FALSE, n |-> 0, png |-> FALSE, pdf |-> FALSE]

\* the arguments of the call made last, for the calls that take flags
NoArgs == [savepng |-> FALSE, savepdf |-> FALSE, fail |-> FALSE]

Init ==
  /\ mgr = [m \in Managers |-> ZipMan_init]
  /\ archive = NoArchive
  /\ last = [op |-> "init", m |-> "-", work |-> "none", exc |-> "none",
             zm |-> ZipMan_init, ret |-> None, args |-> NoArgs]
  /\ run = [pure |-> TRUE, n |-> 0, png |-> FALSE, pdf |-> FALSE]
  /\ steps = 0
  /\ conv = NoConv
  /\ export = NoExport

\* a client call on manager m with outcome r and returned value ret
ClientRet(op, m, r, ret) ==
  /\ steps < MaxSteps
  /\ steps' = steps + 1
  /\ mgr' = [mgr EXCEPT ![m] = r.zm]
  /\ archive' = r.arch
  /\ last' = [op |-> op, m |-> m, work |-> "none", exc |-> r.exc,
              zm |-> ZipMan_init, ret |-> ret, args |-> NoArgs]
  /\ run' = NoRun
  /\ UNCHANGED <<conv, export>>

Client(op, m, r) == ClientRet(op, m, r, None)

DoOpen(m) == Client("open", m, open(mgr[m], archive))

DoClose(m) == Client("close", m, close(mgr[m], archive))

DoSaveState(m) ==
  /\ archive.n < MaxEntries
  /\ Client("SaveState", m, SaveState(mgr[m], archive))

DoSetState(m) ==
  \E s \in StageNames :
    Client("SetState", m, Result("none", SetState(mgr[m], s), archive))

DoSetError(m) ==
  \E tb \in Tracebacks :
    Client("SetError", m,
           Result("none", SetError(mgr[m], Obj("exception"), tb, Str("message"), None), archive))

DoStateSetItem(m) ==
  \E k \in ClientKeys :
    Client("StateSetItem", m, Result("none", StateSetItem(mgr[m], k, Obj(k)), archive))

DoEnter(m) ==
  LET e == enter(mgr[m], archive)
  IN ClientRet("__enter__", m, Result(e.exc, e.zm, e.arch), e.value)

DoExit(m) == Client("__exit__", m, exit(mgr[m], archive))

\* one invocation of the driver, on a ZipMan of its own
DoProcessRRToZip ==
  \E savepng \in BOOLEAN, savepdf \in BOOLEAN, o \in Outcomes :
    LET fail == o[1]
        cut == o[2]
        r == ProcessRRToZip(archive, savepng, savepdf, fail, cut)
        counted == /\ run.pure /\ ~fail /\ cut = "none"
                   /\ (run.n = 0 \/ (run.png = savepng /\ run.pdf = savepdf))
    IN /\ run.pure => run.n < MaxCalls
       /\ archive' = r.arch
       /\ last' = [op |-> "ProcessRRToZip", m |-> "-", work |-> r.work, exc |-> r.exc,
                   zm |-> r.zm, ret |-> r.ret,
                   args |-> [savepng |-> savepng, savepdf |-> savepdf, fail |-> fail]]
       /\ run' = IF counted
                 THEN [pure |-> TRUE, n |-> run.n + 1, png |-> savepng, pdf |-> savepdf]
                 ELSE NoRun
       /\ UNCHANGED <<mgr, steps, conv, export>>

Next ==
  \/ \E m \in Managers : DoOpen(m)
  \/ \E m \in Managers : DoClose(m)
  \/ \E m \in Managers : DoSaveState(m)
  \/ \E m \in Mutators : DoSetState(m)
  \/ \E m \in Mutators : DoSetError(m)
  \/ \E m \in Mutators : DoStateSetItem(m)
  \/ \E m \in Managers : DoEnter(m)
  \/ \E m \in Managers : DoExit(m)
  \/ DoProcessRRToZip

Spec == Init /\ [][Next]_vars

\* ------------------------------------------------------------ definitions
\* used by the properties below
Driver == "ProcessRRToZip"
Opens == {"open", "__enter__"}

\* the record a new manager writes to a path without an archive
EmptyRecord == [state |-> Enum("EMPTY"), error |-> None]

\* the persisted record can be read and its stage is s
PersistedIs(a, s) ==
  /\ a.n > 0
  /\ a.blob.ok
  /\ pickle_load(a.blob).state["state"] = Enum(s)

\* the persisted record exists and cannot be read
Malformed(a) == a.n > 0 /\ ~a.blob.ok

\* an invocation of the driver that was not killed
Invoked(l) == l.op = Driver /\ l.exc # "killed"

\* a successful transition of the cascade from the persisted record P
FullTransition(P, Q) ==
  /\ P.ok
  /\ \E png \in BOOLEAN, pdf \in BOOLEAN :
       LET zm == [zip |-> TRUE, state |-> pickle_load(P).state]
           r == StageBody(zm, [exists |-> TRUE, n |-> 1, blob |-> P], png, pdf, FALSE)
       IN r.exc = "none" /\ Q = r.arch.blob

\* --------------------------------------------------------------------- C1
\* C1: from a new archive and with the engine never failing, the persisted
\* stage is COMPLETED after exactly 7 invocations of the driver with both
\* flags false and after exactly 9 with both true, and not before.
C1_CompletedAfterSevenOrNine ==
  run.pure =>
    /\ (run.n = 7 /\ ~run.png /\ ~run.pdf) => PersistedIs(archive, "COMPLETED")
    /\ (run.n = 9 /\ run.png /\ run.pdf) => PersistedIs(archive, "COMPLETED")
    /\ (run.n < 7) => ~PersistedIs(archive, "COMPLETED")
    /\ (run.n < 9 /\ run.png /\ run.pdf) => ~PersistedIs(archive, "COMPLETED")

\* --------------------------------------------------------------------- C2
\* C2: an exception raised by the work of the with block does not leave the
\* driver: the caller sees none, and the persisted record has stage ERROR
\* and an error dictionary.
C2_StageFailureIsCaught ==
  (last.op = Driver /\ last.work # "none") =>
    /\ last.exc = "none"
    /\ PersistedIs(archive, "ERROR")
    /\ pickle_load(archive.blob).state["error"] # None

C4_ErrorStageFailsAsAlreadyFailed ==
  [][(Invoked(last') /\ PersistedIs(archive, "ERROR")) =>
       /\ last'.exc = "NotImplementedError"
       /\ Persisted(archive') = Persisted(archive)
       /\ archive'.n = archive.n]_vars

C7_CreatesEmptyAndRoundTrips ==
  [][(last'.op \in Opens /\ last'.exc = "none") =>
       /\ mgr'[last'.m].state = pickle_load(Persisted(archive')).state
       /\ (~archive.exists /\ mgr[last'.m].state = EmptyRecord) =>
            /\ archive'.exists
            /\ archive'.n = 1
            /\ PersistedIs(archive', "EMPTY")
            /\ pickle_load(archive'.blob).state = EmptyRecord]_vars

C7_Witness ==
  /\ last.op = "open"
  /\ last.m = "b"
  /\ last.exc = "none"
  /\ steps = 3
  /\ archive.n = 1
  /\ ~mgr["a"].zip
  /\ mgr["b"].state = EmptyRecord
  /\ PersistedIs(archive, "EMPTY")

\* --------------------------------------------------------------------- C8
\* C8 as claimed: at most one manager holds the archive open.
C8_AtMostOneHandle == Cardinality({m \in Managers : mgr[m].zip}) <= 1

\* C8 as amended: open fails with 'already open' exactly when the manager
\* it is called on holds a handle, and then changes nothing; a handle held by
\* another manager of the same path does not matter.
C8_AlreadyOpenPerObject ==
  [][(last'.op \in Opens) =>
       /\ (last'.exc = AlreadyOpen) <=> mgr[last'.m].zip
       /\ mgr[last'.m].zip => (mgr' = mgr /\ archive' = archive)]_vars

C8_Witness ==
  /\ last.op = "open"
  /\ last.exc = AlreadyOpen
  /\ \A m \in Managers : mgr[m].zip

\* --------------------------------------------------------------------- C9
\* C9: open on an archive whose record cannot be read raises; the record in
\* memory and the archive stay as they were.
C9_MalformedRecordFails ==
  [][/\ (last'.op \in Opens /\ ~mgr[last'.m].zip /\ Malformed(archive)) =>
          /\ last'.exc = "EOFError"
          /\ mgr'[last'.m].state = mgr[last'.m].state
          /\ archive' = archive
     /\ (Invoked(last') /\ Malformed(archive)) =>
          /\ last'.exc = "EOFError"
          /\ archive' = archive]_vars

C9_Witness ==
  /\ last.op = "open"
  /\ last.exc = "EOFError"
  /\ Malformed(archive)
  /\ mgr[last.m].state = EmptyRecord

\* -------------------------------------------------------------------- C10
\* C10: close without a handle raises 'not open' and changes neither the
\* record in memory nor the archive; close with a handle releases it, so
\* that the next open is not refused as already open.
C10_CloseDiscipline ==
  [][(last'.op = "close") =>
       IF mgr[last'.m].zip
       THEN /\ last'.exc = "none"
            /\ ~mgr'[last'.m].zip
            /\ archive' = archive
            /\ open(mgr'[last'.m], archive').exc # AlreadyOpen
            /\ open(mgr'[last'.m], archive').zm.zip
       ELSE /\ last'.exc = NotOpen
            /\ mgr' = mgr
            /\ archive' = archive]_vars

C10_Witness ==
  /\ last.op = "close"
  /\ last.exc = NotOpen
  /\ archive.exists
  /\ steps = 3
  /\ mgr[last.m].state = EmptyRecord

\* -------------------------------------------------------------------- C13
\* The conversion at the head of ProcessRRToZip, on its own: a pair of a
\* category and a sampling rate are given, the pair is converted.
InitIntervals ==
  /\ mgr = [m \in Managers |-> ZipMan_init]
  /\ archive = NoArchive
  /\ last = [op |-> "init", m |-> "-", work |-> "none", exc |-> "none",
             zm |-> ZipMan_init, ret |-> None, args |-> NoArgs]
  /\ run = NoRun
  /\ steps = 0
  /\ export = NoExport
  /\ \E c \in Categories, r \in SamplingRates, a \in Seconds, b \in Seconds :
       conv = [cat |-> c, samp |-> r, start |-> a, stop |-> b,
               frames |-> <<0, 0>>, done |-> FALSE]

ConvertIntervals ==
  /\ ~conv.done
  /\ conv' = [conv EXCEPT !.frames = ToFrames(conv.start, conv.stop, conv.samp),
                          !.done = TRUE]
  /\ UNCHANGED <<mgr, archive, last, run, steps, export>>

NextIntervals == ConvertIntervals

SpecIntervals == InitIntervals /\ [][NextIntervals]_vars

\* |frame - num*samp/den| <= 1/2
Nearest(frame, sec, samp) ==
  LET d == frame * sec.den - sec.num * samp
  IN 2 * (IF d < 0 THEN -d ELSE d) <= sec.den

\* C13: for every category, the frames of a pair are the integers nearest to
\* seconds * samplingRate; (1.0, 2.5) at 500 gives (500, 1250) and
\* (0.001, 0.002) at 1000 gives (1, 2).
C13_NearestFrame ==
  conv.done =>
    /\ Nearest(conv.frames[1], conv.start, conv.samp)
    /\ Nearest(conv.frames[2], conv.stop, conv.samp)
    /\ (conv.samp = 500 /\ conv.start = [num |-> 2, den |-> 2]
        /\ conv.stop = [num |-> 5, den |-> 2]) => conv.frames = <<500, 1250>>
    /\ (conv.samp = 1000 /\ conv.start = [num |-> 1, den |-> 1000]
        /\ conv.stop = [num |-> 2, den |-> 1000]) => conv.frames = <<1, 2>>

C13_Witness ==
  /\ conv.done
  /\ conv.cat = "ignore"
  /\ conv.samp = 1000
  /\ conv.start = [num |-> 1, den |-> 1000]
  /\ conv.stop = [num |-> 2, den |-> 1000]
  /\ conv.frames = <<1, 2>>

\* -------------------------------------------------------------------- C11
Bool(v) == [t |-> "bool", v |-> v]

\* the stage the transition table enters after s, by the flags
TableNext(s, savepng, savepdf) ==
  CASE s = "EMPTY" -> "INITIALIZED"
    [] s = "INITIALIZED" -> "CORRELATE"
    [] s = "CORRELATE" -> "KEEPKEYS"
    [] s = "KEEPKEYS" -> "REMOVEKEYS"
    [] s = "REMOVEKEYS" -> "USERFILTER"
    [] s = "USERFILTER" -> "CALCULATERR"
    [] s = "CALCULATERR" ->
         IF savepng THEN "SAVEPNG" ELSE IF savepdf THEN "SAVEPDF" ELSE "COMPLETED"
    [] s = "SAVEPNG" -> IF savepdf THEN "SAVEPDF" ELSE "COMPLETED"
    [] s = "SAVEPDF" -> "COMPLETED"
    [] OTHER -> s

\* the fields the table lists as produced by s
TableProduces(s) ==
  CASE s = "EMPTY" -> {"Channels"}
    [] s = "INITIALIZED" -> {"Potentials", "Peaks"}
    [] s = "CORRELATE" -> {"Correlate"}
    [] s = "KEEPKEYS" -> {"Points", "Keep"}
    [] s = "REMOVEKEYS" -> {"Remove"}
    [] OTHER -> {}

\* the fields the table's work at s consumes
TableReads(s) ==
  CASE s = "CORRELATE" -> {"Channels", "Potentials", "Peaks"}
    [] s = "KEEPKEYS" -> {"Channels", "Peaks"}
    [] s = "REMOVEKEYS" -> {"Channels", "Correlate", "Points", "Keep"}
    [] s = "USERFILTER" -> {"Channels", "Points", "Keep", "Remove", "UserFilter"}
    [] s = "CALCULATERR" -> {"Channels", "Correlate", "Keep", "Remove", "UserFilter"}
    [] OTHER -> {}

NonTerminal == StageNames \ {"COMPLETED", "ERROR"}

\* the persisted record has stage s and the fields the work at s consumes
ReadyAt(a, s) ==
  /\ PersistedIs(a, s)
  /\ TableReads(s) \subseteq DOMAIN pickle_load(a.blob).state

\* C11: with the engine not failing, an invocation at CALCULATERR, SAVEPNG
\* or SAVEPDF enters the next stage its flags select: SAVEPNG only if
\* savepng, SAVEPDF only if savepdf, SAVEPNG before SAVEPDF, else COMPLETED.
C11_OptionalStagesByFlags ==
  [][(Invoked(last') /\ ~last'.args.fail) =>
       \A s \in {"CALCULATERR", "SAVEPNG", "SAVEPDF"} :
         ReadyAt(archive, s) =>
           PersistedIs(archive', TableNext(s, last'.args.savepng, last'.args.savepdf))]_vars

\* -------------------------------------------------------------------- C12
\* C12: once a state record has been written, the archive holds exactly one
\* 'state.pypickle' entry, however many saves were made.
C12_OneStateRecord == archive.n > 0 => archive.n = 1

\* -------------------------------------------------------------------- C14
\* C14: an invocation on a readable record that is not ERROR returns, and
\* returns true exactly when the persisted stage afterwards is COMPLETED.
C14_ReturnsCompleted ==
  (Invoked(last) /\ archive.n > 0 /\ archive.blob.ok /\ ~PersistedIs(archive, "ERROR")) =>
    /\ last.exc = "none"
    /\ last.ret = Bool(PersistedIs(archive, "COMPLETED"))

\* -------------------------------------------------------------------- C15
\* C15: with the engine not failing, an invocation at a non-terminal stage s
\* (a path without an archive counting as EMPTY) leaves the persisted record
\* at the table's next stage with the fields s produces set.
C15_OneTransitionPerInvocation ==
  [][(Invoked(last') /\ ~last'.args.fail) =>
       \A s \in NonTerminal :
         (ReadyAt(archive, s) \/ (s = "EMPTY" /\ archive.n = 0)) =>
           /\ PersistedIs(archive', TableNext(s, last'.args.savepng, last'.args.savepdf))
           /\ TableProduces(s) \subseteq DOMAIN pickle_load(archive'.blob).state]_vars

\* -------------------------------------------------------------------- C16
\* the fields written by the stages that come before s
WrittenBefore(s) ==
  UNION {Writes(t) : t \in {u \in StageNames : ProcessingStateEnum[u] < ProcessingStateEnum[s]}}

\* the record d holds every field of the stages before its own
WellOrdered(d) ==
  \A s \in StageNames \ {"ERROR"} :
    d["state"] = Enum(s) => WrittenBefore(s) \subseteq DOMAIN d

\* a record at stage s that holds exactly the fields of the stages before s
RecordAt(s) ==
  [k \in {"state", "error"} \cup WrittenBefore(s) |->
     IF k = "state" THEN Enum(s) ELSE IF k = "error" THEN None ELSE Obj(k)]

\* the cascade run on an open manager that holds the record d
OnRecord(d, savepng, savepdf) ==
  StageBody([zip |-> TRUE, state |-> d],
            [exists |-> TRUE, n |-> 1, blob |-> pickle_dump(d).blob],
            savepng, savepdf, FALSE)

\* at no stage does the cascade read a field that the stages before it have
\* not written, and the records its first two branches leave are in order
ReadsInStageOrder ==
  /\ \A s \in NonTerminal, savepng \in BOOLEAN, savepdf \in BOOLEAN :
       OnRecord(RecordAt(s), savepng, savepdf).exc # "KeyError"
  /\ LET r1 == OnRecord(InitState, FALSE, FALSE)
         r2 == OnRecord(r1.zm.state, FALSE, FALSE)
     IN /\ r1.exc = "none" /\ WellOrdered(r1.zm.state)
        /\ r2.exc = "none" /\ WellOrdered(r2.zm.state)
        /\ OnRecord(r2.zm.state, FALSE, FALSE).exc # "KeyError"

C18_EnterBindsManager ==
  /\ (last.op = "__enter__" /\ last.exc = "none") => last.ret # None
  /\ Invoked(last) => last.exc # "AttributeError"

\* -------------------------------------------------------------------- C19
\* C19: after an invocation of the driver ends, and after an __enter__ that
\* failed while opening the archive, the manager holds no handle.
C19_HandleReleased ==
  /\ Invoked(last) => ~last.zm.zip
  /\ (last.op = "__enter__" /\ last.exc \notin {"none", AlreadyOpen}) => ~mgr[last.m].zip

\* -------------------------------------------------------------------- C17
\* The export on its own: a recording of n frames at a sampling frequency
\* and a paper speed are given, the recording is exported.
InitExport ==
  /\ mgr = [m \in Managers |-> ZipMan_init]
  /\ archive = NoArchive
  /\ last = [op |-> "init", m |-> "-", work |-> "none", exc |-> "none",
             zm |-> ZipMan_init, ret |-> None, args |-> NoArgs]
  /\ run = NoRun
  /\ steps = 0
  /\ conv = NoConv
  /\ \E f \in Frequencies, s \in Speeds, n \in 0..MaxFrames :
       export = [NoExport EXCEPT !.freq = f, !.speed = s, !.n = n]

DoExportToPDF ==
  /\ ~export.done
  /\ LET r == ExportToPDF(export.freq, export.speed, export.n)
     IN export' = [export EXCEPT !.pages = r.pages, !.times = r.times,
                                 !.exc = r.exc, !.done = TRUE]
  /\ UNCHANGED <<mgr, archive, last, run, steps, conv>>

NextExport == DoExportToPDF

SpecExport == InitExport /\ [][NextExport]_vars

\* the frames i, i+1, ..., in order
Consecutive(p) == \A k \in 1..Len(p) : p[k] = p[1] + (k - 1)

\* C17: for step >= 1 every page drawn holds exactly step consecutive
\* frames, the first page included.
C17_EachPageHoldsStep ==
  (export.done /\ export.exc = "none" /\ Step(export.freq, export.speed) >= 1) =>
    \A k \in 1..Len(export.pages) :
      /\ Len(export.pages[k]) = Step(export.freq, export.speed)
      /\ Consecutive(export.pages[k])

\* -------------------------------------------------------------------- C20
\* the frames of the pages p, page after page
RECURSIVE Flatten(_)
Flatten(p) == IF p = <<>> THEN <<>> ELSE Head(p) \o Flatten(Tail(p))

\* C20: when the stream has been consumed, the pages drawn hold the frames
\* 0..n-1 once each, in stream order.
C20_EveryFrameOnOnePage ==
  (export.done /\ export.exc = "none") =>
    Flatten(export.pages) = [k \in 1..export.n |-> k - 1]

====
